---- MODULE Spec2Model ----
(***************************************************************************)
(* Model of the health journal store (storage.py) and of the four tool     *)
(* functions that operate on it (tools.py).                                *)
(*                                                                         *)
(* The store is the module-level HealthStore instance: two Python lists    *)
(* of dicts.  A list is only ever appended to, so the position of a dict   *)
(* in its list identifies the dict object; a Python list of (references    *)
(* to) stored dicts is modelled as a sequence of references                *)
(* [list |-> "symptoms" | "medications", idx |-> position].                *)
(*                                                                         *)
(* A float with one decimal (avg_severity) is modelled by the integer      *)
(* number of tenths: 8.0 is 80, 6.2 is 62.                                 *)
(***************************************************************************)
EXTENDS Integers, Sequences, FiniteSets, TLC

VARIABLES
    symptoms,      \* store.symptoms: the list of symptom dicts
    medications,   \* store.medications: the list of medication dicts
    call,          \* the last call made: its operation and arguments
    result         \* the value that call returned (held by the caller)

vars == <<symptoms, medications, call, result>>

(***************************************************************************)
(* Program constants.                                                      *)
(***************************************************************************)
\* limit: int = 10, the default of get_symptoms and get_medications
DefaultLimit == 10
\* patterns["patterns"][:3]
SummaryTop == 3
\* if not 1 <= severity <= 10
MinSeverity == 1
MaxSeverity == 10

(***************************************************************************)
(* Bounds of the model and the inputs the calls are drawn from.            *)
(***************************************************************************)
MaxSymptoms == 2          \* Spec, SpecCaller: stored symptoms
MaxMedications == 2       \* Spec, SpecCaller: stored medications
MaxPatternEntries == 4    \* SpecPatterns: stored symptoms
MaxLongEntries == 11      \* SpecLong: stored symptoms (beyond DefaultLimit)
MaxSessionEntries == 3    \* SpecSessions: stored symptoms

Names == {"headache", "nausea"}
Severities == {0, 1, 10, 11}
Notes == {""}
MedicationNames == {"aspirin"}
Dosages == {"100mg", "2 tablets"}
TimesTaken == {"", "08:30"}
Limits == {0, 1, 2, DefaultLimit}
\* the instants datetime.now() returns
Clock == {[date |-> "2025-11-30", hour |-> 9, minute |-> 5]}

\* (symptom_name, severity) pairs logged under SpecPatterns
PatternInputs ==
    { <<"headache", 7>>, <<"headache", 9>>, <<"headache", 4>>,
      <<"nausea", 4>>, <<"a", 5>>, <<"b", 5>>, <<"nausea", 0>> }
\* (symptom_name, severity) pairs logged under SpecSessions
SessionInputs == { <<"a", 5>>, <<"b", 7>>, <<"b", 0>> }
\* (symptom_name, severity) pairs logged under SpecLong
LongInputs == { <<"a", 5>>, <<"b", 5>>, <<"b", 11>> }

(***************************************************************************)
(* Python helpers.                                                         *)
(***************************************************************************)
Min(a, b) == IF a <= b THEN a ELSE b
Max(a, b) == IF a >= b THEN a ELSE b

\* xs[start:] for a Python list xs and a (possibly negative) start
PySliceFrom(xs, start) ==
    LET n == Len(xs)
        s == IF start < 0 THEN Max(start + n, 0) ELSE Min(start, n)
    IN  SubSeq(xs, s + 1, n)

\* xs[:stop] for a non-negative stop
PySliceTo(xs, stop) == SubSeq(xs, 1, Min(stop, Len(xs)))

Digit(d) ==
    CASE d = 0 -> "0" [] d = 1 -> "1" [] d = 2 -> "2" [] d = 3 -> "3"
      [] d = 4 -> "4" [] d = 5 -> "5" [] d = 6 -> "6" [] d = 7 -> "7"
      [] d = 8 -> "8" [] d = 9 -> "9"

\* now.strftime("%H:%M"): zero-padded 24-hour clock time
strftime_HM(now) ==
    Digit(now.hour \div 10) \o Digit(now.hour % 10) \o ":"
        \o Digit(now.minute \div 10) \o Digit(now.minute % 10)

(***************************************************************************)
(* storage.py: HealthStore.                                                *)
(***************************************************************************)
Ref(list, i) == [list |-> list, idx |-> i]

\* the references held by self.symptoms / self.medications, in list order
SymptomRefs == [i \in 1..Len(symptoms) |-> Ref("symptoms", i)]
MedicationRefs == [i \in 1..Len(medications) |-> Ref("medications", i)]

\* mutant: the entry is inserted at the front of the list
add_symptom_Prepends(data) == symptoms' = <<data>> \o symptoms

\* self.symptoms.append(data)
add_symptom(data) == symptoms' = Append(symptoms, data)

\* mutant: the entry is inserted at the front of the list
add_medication_Prepends(data) == medications' = <<data>> \o medications

\* self.medications.append(data)
add_medication(data) == medications' = Append(medications, data)

\* self.symptoms[-limit:]
get_symptoms(limit) == PySliceFrom(SymptomRefs, -limit)

\* self.medications[-limit:]
get_medications(limit) == PySliceFrom(MedicationRefs, -limit)

\* the dict a reference points to
Deref(r) ==
    IF r.list = "symptoms" THEN symptoms[r.idx] ELSE medications[r.idx]

\* the dicts a list of references points to
DerefAll(refs) == [i \in 1..Len(refs) |-> Deref(refs[i])]

(***************************************************************************)
(* tools.py: log_symptom and track_medication.                             *)
(***************************************************************************)
\* mutant: the upper bound is exclusive
ValidSeverity_ExcludesMax(severity) ==
    MinSeverity <= severity /\ severity < MaxSeverity

\* mutant: the lower bound is not checked
ValidSeverity_NoLowerBound(severity) == severity <= MaxSeverity

\* if not 1 <= severity <= 10 (negated)
ValidSeverity(severity) == MinSeverity <= severity /\ severity <= MaxSeverity

log_symptom(symptom_name, severity, notes, now) ==
    /\ call' = [op |-> "log_symptom", symptom_name |-> symptom_name,
                severity |-> severity, notes |-> notes]
    /\ IF ~ValidSeverity(severity)
       THEN /\ result' = [status |-> "error",
                          error_message |-> "Severity must be between 1 and 10"]
            /\ UNCHANGED <<symptoms, medications>>
       ELSE /\ add_symptom([symptom |-> symptom_name, severity |-> severity,
                            notes |-> notes, timestamp |-> now])
            /\ result' = [status |-> "success",
                          message |-> <<"Logged ", symptom_name,
                                        " (severity ", severity, ")">>]
            /\ UNCHANGED medications

track_medication(medication_name, dosage, time_taken, now) ==
    LET time == IF time_taken = "" THEN strftime_HM(now) ELSE time_taken
    IN  /\ call' = [op |-> "track_medication",
                    medication_name |-> medication_name,
                    dosage |-> dosage, time_taken |-> time_taken]
        /\ add_medication([medication |-> medication_name, dosage |-> dosage,
                           time |-> time, timestamp |-> now])
        /\ result' = [status |-> "success",
                      message |-> <<"Tracked ", medication_name,
                                    " (", dosage, ")">>]
        /\ UNCHANGED symptoms

(***************************************************************************)
(* tools.py: analyze_patterns.                                             *)
(***************************************************************************)
\* mutant: a missing key counts as 1
DictGet_DefaultOne(d, key) == IF key \in DOMAIN d THEN d[key] ELSE 1

\* d.get(key, 0) for a dict d modelled as a function
DictGet(d, key) == IF key \in DOMAIN d THEN d[key] ELSE 0

\* d[key] = value: the dict with key set, other keys kept
DictSet(d, key, value) ==
    [k \in (DOMAIN d) \cup {key} |-> IF k = key THEN value ELSE d[k]]

\* The loop "for s in symptoms" after its first k iterations: the two dicts
\* and, as keys, the insertion order of counts (a dict iterates in it).
RECURSIVE Tally(_, _)
Tally(entries, k) ==
    IF k = 0
    THEN [keys |-> <<>>, counts |-> <<>>, severity_sums |-> <<>>]
    ELSE LET t == Tally(entries, k - 1)
             name == entries[k].symptom
             sev == entries[k].severity
         IN  [keys |-> IF name \in DOMAIN t.counts THEN t.keys
                       ELSE Append(t.keys, name),
              counts |-> DictSet(t.counts, name, DictGet(t.counts, name) + 1),
              severity_sums |->
                  DictSet(t.severity_sums, name,
                          DictGet(t.severity_sums, name) + sev)]

\* mutant: the quotient is cut to one decimal instead of rounded
Round1_Truncates(total, count) == (10 * total) \div count

\* round(total / count, 1) in tenths: the float quotient rounded to one
\* decimal, a tie (exact at a quarter, the only tie a count <= 10 gives)
\* going to the even tenth
Round1(total, count) ==
    LET q == (10 * total) \div count
        r == (10 * total) % count
    IN  IF 2 * r < count THEN q
        ELSE IF 2 * r > count THEN q + 1
        ELSE IF q % 2 = 0 THEN q ELSE q + 1

\* the list built by "for name, count in counts.items()"
BuildPatterns(t) ==
    [i \in 1..Len(t.keys) |->
        [symptom |-> t.keys[i],
         count |-> t.counts[t.keys[i]],
         avg_severity |-> Round1(t.severity_sums[t.keys[i]],
                                 t.counts[t.keys[i]])]]

\* mutant: p goes in front of the elements of its own count
InsertByCount_Strict(sorted, p) ==
    LET before == {i \in 1..Len(sorted) : sorted[i].count > p.count}
        k == Cardinality(before)
    IN  SubSeq(sorted, 1, k) \o <<p>> \o SubSeq(sorted, k + 1, Len(sorted))

\* p put into a list sorted by count, descending, behind every element
\* whose count is at least p's
InsertByCount(sorted, p) ==
    LET before == {i \in 1..Len(sorted) : sorted[i].count >= p.count}
        k == Cardinality(before)
    IN  SubSeq(sorted, 1, k) \o <<p>> \o SubSeq(sorted, k + 1, Len(sorted))

\* patterns.sort(key=lambda x: x["count"], reverse=True): a stable sort,
\* elements of equal count keep their order
RECURSIVE SortByCount(_)
SortByCount(ps) ==
    IF ps = <<>> THEN <<>>
    ELSE InsertByCount(SortByCount(SubSeq(ps, 1, Len(ps) - 1)), ps[Len(ps)])

\* the value analyze_patterns() returns in the current store state
analyze_patterns ==
    LET entries == DerefAll(get_symptoms(DefaultLimit))
    IN  IF entries = <<>>
        THEN [status |-> "no_data", message |-> "No symptoms logged yet"]
        ELSE [status |-> "success",
              patterns |-> SortByCount(BuildPatterns(Tally(entries, Len(entries)))),
              total_entries |-> Len(entries)]

(***************************************************************************)
(* tools.py: get_health_summary.                                           *)
(***************************************************************************)
\* the lines of the summary text, each with the values formatted into it
SummaryLines(now, n_symptoms, n_meds, patterns) ==
    <<[kind |-> "Health Summary - ", date |-> now.date],
      [kind |-> "=", times |-> 50],
      [kind |-> "Symptoms logged: ", n |-> n_symptoms],
      [kind |-> "Medications tracked: ", n |-> n_meds]>>
    \o (IF patterns.status = "success"
        THEN <<[kind |-> "Top symptoms:"]>>
             \o [i \in 1..Len(PySliceTo(patterns.patterns, SummaryTop)) |->
                    [kind |-> "  - ",
                     symptom |-> patterns.patterns[i].symptom,
                     count |-> patterns.patterns[i].count,
                     avg_severity |-> patterns.patterns[i].avg_severity]]
        ELSE <<>>)

\* the value get_health_summary() returns in the current store state
get_health_summary(now) ==
    LET syms == get_symptoms(DefaultLimit)
        meds == get_medications(DefaultLimit)
        patterns == analyze_patterns
    IN  [status |-> "success",
         summary |-> SummaryLines(now, Len(syms), Len(meds), patterns),
         symptoms |-> syms,
         medications |-> meds]

(***************************************************************************)
(* The calls that read the store.                                          *)
(***************************************************************************)
call_analyze_patterns ==
    /\ call' = [op |-> "analyze_patterns"]
    /\ result' = analyze_patterns
    /\ UNCHANGED <<symptoms, medications>>

call_get_health_summary(now) ==
    /\ call' = [op |-> "get_health_summary"]
    /\ result' = get_health_summary(now)
    /\ UNCHANGED <<symptoms, medications>>

\* mutant: the read takes the returned entries out of the list
call_get_symptoms_Consumes(limit) ==
    /\ call' = [op |-> "get_symptoms", limit |-> limit]
    /\ result' = get_symptoms(limit)
    /\ symptoms' = SubSeq(symptoms, 1, Len(symptoms) - Len(get_symptoms(limit)))
    /\ UNCHANGED medications

call_get_symptoms(limit) ==
    /\ call' = [op |-> "get_symptoms", limit |-> limit]
    /\ result' = get_symptoms(limit)
    /\ UNCHANGED <<symptoms, medications>>

call_get_medications(limit) ==
    /\ call' = [op |-> "get_medications", limit |-> limit]
    /\ result' = get_medications(limit)
    /\ UNCHANGED <<symptoms, medications>>

(***************************************************************************)
(* The caller of a read holds the returned list, a new list object whose   *)
(* elements are the store's own dicts (a slice copies the list, not its    *)
(* elements), and may mutate either.                                       *)
(***************************************************************************)
ReadOps == {"get_symptoms", "get_medications", "get_health_summary"}

\* the lists of stored dicts the last call returned
ReturnedSymptoms ==
    IF call.op = "get_symptoms" THEN result
    ELSE IF call.op = "get_health_summary" THEN result.symptoms ELSE <<>>

ReturnedMedications ==
    IF call.op = "get_medications" THEN result
    ELSE IF call.op = "get_health_summary" THEN result.medications ELSE <<>>

\* returned.append({...}) or returned.pop() on the returned symptom list
caller_mutates_list ==
    /\ call.op \in {"get_symptoms", "get_health_summary"}
    /\ \E new \in {Append(ReturnedSymptoms, Ref("caller", 0))}
               \cup (IF ReturnedSymptoms = <<>> THEN {}
                     ELSE {SubSeq(ReturnedSymptoms, 1,
                                  Len(ReturnedSymptoms) - 1)}) :
          result' = IF call.op = "get_symptoms" THEN new
                    ELSE [result EXCEPT !.symptoms = new]
    /\ call' = [op |-> "caller_mutates_list"]
    /\ UNCHANGED <<symptoms, medications>>

\* returned[i]["severity"] = value on a returned symptom entry
caller_sets_severity(i, value) ==
    /\ call.op \in ReadOps
    /\ i \in 1..Len(ReturnedSymptoms)
    /\ symptoms' = [symptoms EXCEPT ![ReturnedSymptoms[i].idx].severity = value]
    /\ call' = [op |-> "caller_sets_severity"]
    /\ UNCHANGED <<medications, result>>

\* returned[i]["dosage"] = value on a returned medication entry
caller_sets_dosage(i, value) ==
    /\ call.op \in ReadOps
    /\ i \in 1..Len(ReturnedMedications)
    /\ medications' =
          [medications EXCEPT ![ReturnedMedications[i].idx].dosage = value]
    /\ call' = [op |-> "caller_sets_dosage"]
    /\ UNCHANGED <<symptoms, result>>

(***************************************************************************)
(* Specifications.                                                         *)
(***************************************************************************)
Init ==
    /\ symptoms = <<>>
    /\ medications = <<>>
    /\ call = [op |-> "init"]
    /\ result = [status |-> "none"]

\* the tools and the store's reads, on short stores of both kinds
Next ==
    \/ \E n \in Names, s \in Severities, nt \in Notes, now \in Clock :
          /\ Len(symptoms) < MaxSymptoms
          /\ log_symptom(n, s, nt, now)
    \/ \E m \in MedicationNames, d \in Dosages, t \in TimesTaken, now \in Clock :
          /\ Len(medications) < MaxMedications
          /\ track_medication(m, d, t, now)
    \/ call_analyze_patterns
    \/ \E now \in Clock : call_get_health_summary(now)
    \/ \E limit \in Limits : call_get_symptoms(limit)
    \/ \E limit \in Limits : call_get_medications(limit)

Spec == Init /\ [][Next]_vars

\* symptom workloads for the aggregation
NextPatterns ==
    \/ \E in \in PatternInputs, nt \in Notes, now \in Clock :
          /\ Len(symptoms) < MaxPatternEntries
          /\ log_symptom(in[1], in[2], nt, now)
    \/ call_analyze_patterns
    \/ \E now \in Clock : call_get_health_summary(now)

SpecPatterns == Init /\ [][NextPatterns]_vars

\* symptom stores longer than the default limit of the reads
NextLong ==
    \/ \E in \in LongInputs, nt \in Notes, now \in Clock :
          /\ Len(symptoms) < MaxLongEntries
          /\ log_symptom(in[1], in[2], nt, now)
    \/ call_analyze_patterns
    \/ \E now \in Clock : call_get_health_summary(now)
    \/ call_get_symptoms(DefaultLimit)

SpecLong == Init /\ [][NextLong]_vars

\* the tools, the reads, and a caller that mutates what a read returned
NextCaller ==
    \/ Next
    \/ caller_mutates_list
    \/ \E i \in 1..MaxSymptoms, v \in Severities : caller_sets_severity(i, v)
    \/ \E i \in 1..MaxMedications, d \in Dosages : caller_sets_dosage(i, d)

SpecCaller == Init /\ [][NextCaller]_vars

(***************************************************************************)
(* Two sessions on the one module-level store.  One session runs           *)
(* get_health_summary statement by statement: call holds that call and     *)
(* the line it is at, result holds its local variables until it returns.   *)
(* The other session's log_symptom calls run between those statements;     *)
(* nothing in the store or the tools orders the two.                       *)
(***************************************************************************)
\* symptoms = store.get_symptoms()
summary_line136 ==
    /\ call.op # "in_get_health_summary"
    /\ call' = [op |-> "in_get_health_summary", pc |-> "137"]
    /\ result' = [symptoms |-> get_symptoms(DefaultLimit)]
    /\ UNCHANGED <<symptoms, medications>>

\* meds = store.get_medications()
summary_line137 ==
    /\ call.op = "in_get_health_summary" /\ call.pc = "137"
    /\ call' = [call EXCEPT !.pc = "138"]
    /\ result' = [symptoms |-> result.symptoms,
                  meds |-> get_medications(DefaultLimit)]
    /\ UNCHANGED <<symptoms, medications>>

\* patterns = analyze_patterns(), which reads the store itself
summary_line138 ==
    /\ call.op = "in_get_health_summary" /\ call.pc = "138"
    /\ call' = [call EXCEPT !.pc = "140"]
    /\ result' = [symptoms |-> result.symptoms, meds |-> result.meds,
                  patterns |-> analyze_patterns]
    /\ UNCHANGED <<symptoms, medications>>

\* the summary text is composed from the locals and the call returns
summary_line140(now) ==
    /\ call.op = "in_get_health_summary" /\ call.pc = "140"
    /\ call' = [op |-> "get_health_summary"]
    /\ result' = [status |-> "success",
                  summary |-> SummaryLines(now, Len(result.symptoms),
                                           Len(result.meds), result.patterns),
                  symptoms |-> result.symptoms,
                  medications |-> result.meds]
    /\ UNCHANGED <<symptoms, medications>>

\* log_symptom called by the other session: its effect on the store
other_session_log_symptom(symptom_name, severity, notes, now) ==
    /\ IF ~ValidSeverity(severity)
       THEN UNCHANGED symptoms
       ELSE add_symptom([symptom |-> symptom_name, severity |-> severity,
                         notes |-> notes, timestamp |-> now])
    /\ UNCHANGED <<medications, call, result>>

NextSessions ==
    \/ summary_line136
    \/ summary_line137
    \/ summary_line138
    \/ \E now \in Clock : summary_line140(now)
    \/ \E in \in SessionInputs, nt \in Notes, now \in Clock :
          /\ Len(symptoms) < MaxSessionEntries
          /\ other_session_log_symptom(in[1], in[2], nt, now)

SpecSessions == Init /\ [][NextSessions]_vars

(***************************************************************************)
(* Claims.                                                                 *)
(***************************************************************************)
Last(xs) == xs[Len(xs)]

\* C1: a log_symptom call with 1 <= severity <= 10 returns "success" and
\* appends exactly one entry, with the call's name and severity, to the end
\* of the symptom sequence; the medication sequence is unchanged.
C1_LogSymptomAppends ==
    [][(call'.op = "log_symptom" /\ call'.severity \in 1..10)
        => /\ result'.status = "success"
           /\ Len(symptoms') = Len(symptoms) + 1
           /\ SubSeq(symptoms', 1, Len(symptoms)) = symptoms
           /\ Last(symptoms').symptom = call'.symptom_name
           /\ Last(symptoms').severity = call'.severity
           /\ medications' = medications]_vars

\* a log_symptom call of severity 10 succeeded on a store that already held
\* a symptom and a medication
C1_Witness ==
    /\ call.op = "log_symptom"
    /\ call.severity = 10
    /\ result.status = "success"
    /\ Len(symptoms) >= 2
    /\ Last(symptoms).severity = 10
    /\ medications # <<>>

\* C2: a log_symptom call with severity < 1 or severity > 10 returns "error"
\* with an error_message and leaves both sequences as they were.
C2_LogSymptomRejects ==
    [][(call'.op = "log_symptom" /\ (call'.severity < 1 \/ call'.severity > 10))
        => /\ result'.status = "error"
           /\ "error_message" \in DOMAIN result'
           /\ symptoms' = symptoms
           /\ medications' = medications]_vars

\* a log_symptom call of severity 11 was rejected on a store holding entries
C2_Witness ==
    /\ call.op = "log_symptom"
    /\ call.severity = 11
    /\ result.status = "error"
    /\ symptoms # <<>>
    /\ medications # <<>>

\* the last k elements of xs
LastN(xs, k) == SubSeq(xs, Len(xs) - k + 1, Len(xs))

\* C4: for every limit >= 0, get_symptoms(limit) returns exactly the last
\* min(limit, n) stored symptom entries, oldest first, and get_medications
\* does the same for the medications.
C4_ReadsReturnLastMin ==
    /\ (call.op = "get_symptoms" /\ call.limit >= 0)
          => DerefAll(result) = LastN(symptoms, Min(call.limit, Len(symptoms)))
    /\ (call.op = "get_medications" /\ call.limit >= 0)
          => DerefAll(result)
                 = LastN(medications, Min(call.limit, Len(medications)))

\* C5: no mutation the caller performs on a returned value changes what a
\* later read of the store returns.
C5_ReturnedValueIsSnapshot ==
    [][call'.op \in {"caller_mutates_list", "caller_sets_severity",
                     "caller_sets_dosage"}
        => \A limit \in Limits :
              /\ DerefAll(get_symptoms(limit))' = DerefAll(get_symptoms(limit))
              /\ DerefAll(get_medications(limit))'
                     = DerefAll(get_medications(limit))]_vars

\* C10: every track_medication call returns "success" and appends exactly
\* one entry, with the call's name and dosage, to the end of the medication
\* sequence; the symptom sequence is unchanged.
C10_TrackMedicationAppends ==
    [][call'.op = "track_medication"
        => /\ result'.status = "success"
           /\ Len(medications') = Len(medications) + 1
           /\ SubSeq(medications', 1, Len(medications)) = medications
           /\ Last(medications').medication = call'.medication_name
           /\ Last(medications').dosage = call'.dosage
           /\ symptoms' = symptoms]_vars

\* a track_medication call without a time succeeded on a store that already
\* held a different medication entry and a symptom
C10_Witness ==
    /\ call.op = "track_medication"
    /\ call.time_taken = ""
    /\ result.status = "success"
    /\ Len(medications) >= 2
    /\ medications[1] # Last(medications)
    /\ symptoms # <<>>

\* the sum of the counts of a pattern list
RECURSIVE SumCounts(_)
SumCounts(ps) ==
    IF ps = <<>> THEN 0
    ELSE ps[Len(ps)].count + SumCounts(SubSeq(ps, 1, Len(ps) - 1))

\* C3: analyze_patterns aggregates over the most recent min(n, 100) symptom
\* entries: on success total_entries is min(n, 100) and the pattern counts
\* sum to it.
C3_AnalyzesUpTo100 ==
    (call.op = "analyze_patterns" /\ result.status = "success")
        => /\ result.total_entries = Min(Len(symptoms), 100)
           /\ SumCounts(result.patterns) = Min(Len(symptoms), 100)

\* the entries analyze_patterns read: the last total_entries of the store
Snapshot == LastN(symptoms, result.total_entries)

\* the positions of the snapshot entries named name
Named(snap, name) == {j \in 1..Len(snap) : snap[j].symptom = name}

\* the sum of the severities of the snapshot entries named name
RECURSIVE SeveritySum(_, _)
SeveritySum(snap, name) ==
    IF snap = <<>> THEN 0
    ELSE (IF Last(snap).symptom = name THEN Last(snap).severity ELSE 0)
         + SeveritySum(SubSeq(snap, 1, Len(snap) - 1), name)

\* the (name, severity) pairs of a list of symptom entries
Pairs(entries) ==
    [i \in 1..Len(entries) |-> <<entries[i].symptom, entries[i].severity>>]

\* C6: analyze_patterns returns "no_data" exactly when the symptom store is
\* empty and "success" otherwise; with exactly one entry logged the result
\* has one pattern, of count 1 and avg_severity that entry's severity.
C6_NoDataIffEmpty ==
    call.op = "analyze_patterns"
        => /\ (result.status = "no_data") <=> (symptoms = <<>>)
           /\ (symptoms # <<>>) => (result.status = "success")
           /\ Len(symptoms) = 1
                 => /\ Len(result.patterns) = 1
                    /\ result.patterns[1].symptom = symptoms[1].symptom
                    /\ result.patterns[1].count = 1
                    /\ result.patterns[1].avg_severity
                           = 10 * symptoms[1].severity

\* analyze_patterns was called with exactly one entry logged
C6_Witness ==
    /\ call.op = "analyze_patterns"
    /\ Len(symptoms) = 1
    /\ result.status = "success"

\* C7: the result of analyze_patterns has exactly one pattern per distinct
\* symptom name of the snapshot, its count the number of snapshot entries of
\* that name and its avg_severity their severity sum over that count,
\* rounded to one decimal; (headache,7),(headache,9),(nausea,4) gives
\* [headache 2 8.0, nausea 1 4.0] and total_entries 3.
C7_OnePatternPerName ==
    (call.op = "analyze_patterns" /\ result.status = "success")
        => LET ps == result.patterns
               snap == Snapshot
           IN  /\ {ps[i].symptom : i \in 1..Len(ps)}
                      = {snap[j].symptom : j \in 1..Len(snap)}
               /\ \A i, k \in 1..Len(ps) :
                      ps[i].symptom = ps[k].symptom => i = k
               /\ \A i \in 1..Len(ps) :
                      /\ ps[i].count = Cardinality(Named(snap, ps[i].symptom))
                      /\ LET d == 10 * SeveritySum(snap, ps[i].symptom)
                                      - ps[i].avg_severity * ps[i].count
                         IN  /\ 2 * d <= ps[i].count
                             /\ -2 * d <= ps[i].count
               /\ Pairs(symptoms)
                      = <<<<"headache", 7>>, <<"headache", 9>>, <<"nausea", 4>>>>
                  => /\ ps = <<[symptom |-> "headache", count |-> 2,
                                avg_severity |-> 80],
                               [symptom |-> "nausea", count |-> 1,
                                avg_severity |-> 40]>>
                     /\ result.total_entries = 3

\* analyze_patterns was called after (headache,7),(headache,9),(nausea,4)
C7_Witness ==
    /\ call.op = "analyze_patterns"
    /\ result.status = "success"
    /\ Pairs(symptoms)
           = <<<<"headache", 7>>, <<"headache", 9>>, <<"nausea", 4>>>>

\* the position at which name first occurs in the snapshot
FirstSeen(snap, name) ==
    CHOOSE j \in Named(snap, name) : \A k \in Named(snap, name) : j <= k

\* C8: the patterns are ordered by count, non-increasing, and patterns of
\* equal count are in the order their names first occur in the snapshot;
\* (a,5),(b,5) gives the order [a, b].
C8_SortedByCountStable ==
    (call.op = "analyze_patterns" /\ result.status = "success")
        => LET ps == result.patterns
               snap == Snapshot
           IN  /\ \A i, k \in 1..Len(ps) :
                      i < k =>
                          /\ ps[i].count >= ps[k].count
                          /\ ps[i].count = ps[k].count
                                => FirstSeen(snap, ps[i].symptom)
                                       < FirstSeen(snap, ps[k].symptom)
               /\ Pairs(symptoms) = <<<<"a", 5>>, <<"b", 5>>>>
                  => /\ Len(ps) = 2
                     /\ ps[1].symptom = "a"
                     /\ ps[2].symptom = "b"

\* analyze_patterns was called on a snapshot in which a name seen later has
\* the higher count and two names seen before it tie
C8_Witness ==
    /\ call.op = "analyze_patterns"
    /\ result.status = "success"
    /\ Pairs(symptoms) = <<<<"a", 5>>, <<"b", 5>>, <<"nausea", 4>>, <<"nausea", 4>>>>

\* the pattern lines of a summary text
PatternLines(summary) == SubSeq(summary, 6, Len(summary))

\* C9: get_health_summary always returns "success"; its text reports the
\* numbers of stored symptoms and medications, up to 100 each, and lists the
\* first min(3, number of patterns) patterns of analyze_patterns in their
\* order, none when the symptom store is empty.
C9_SummaryReportsCounts ==
    call.op = "get_health_summary"
        => /\ result.status = "success"
           /\ result.summary[3]
                  = [kind |-> "Symptoms logged: ",
                     n |-> Min(Len(symptoms), 100)]
           /\ result.summary[4]
                  = [kind |-> "Medications tracked: ",
                     n |-> Min(Len(medications), 100)]
           /\ IF symptoms = <<>>
              THEN Len(result.summary) = 4
              ELSE LET ps == analyze_patterns.patterns
                       shown == PatternLines(result.summary)
                   IN  /\ Len(shown) = Min(3, Len(ps))
                       /\ \A i \in 1..Len(shown) :
                              /\ shown[i].symptom = ps[i].symptom
                              /\ shown[i].count = ps[i].count
                              /\ shown[i].avg_severity = ps[i].avg_severity

\* xs is an initial part of ys
IsPrefix(xs, ys) == Len(xs) <= Len(ys) /\ SubSeq(ys, 1, Len(xs)) = xs

\* C11: over any sequence of log_symptom, track_medication,
\* analyze_patterns, get_health_summary, get_symptoms and get_medications
\* calls both stored sequences are append-only: across every step the old
\* content of each is a prefix of its new content.
C11_AppendOnly ==
    [][IsPrefix(symptoms, symptoms') /\ IsPrefix(medications, medications')]_vars

\* a second, different symptom was logged behind the first, with a
\* medication stored
C11_Witness ==
    /\ call.op = "log_symptom"
    /\ result.status = "success"
    /\ Len(symptoms) = 2
    /\ symptoms[1] # symptoms[2]
    /\ Len(medications) >= 1

\* C12: get_symptoms, get_medications, analyze_patterns and
\* get_health_summary leave both stored sequences unchanged, so a
\* get_symptoms(n) made right after a get_symptoms(n) returns the same
\* sequence.
C12_ReadsChangeNothing ==
    [][call'.op \in {"get_symptoms", "get_medications", "analyze_patterns",
                     "get_health_summary"}
        => /\ symptoms' = symptoms
           /\ medications' = medications
           /\ call'.op = "get_symptoms"
                 => DerefAll(get_symptoms(call.limit))' = DerefAll(result)']_vars

\* get_symptoms(1) was called on a store of two symptoms and a medication
C12_Witness ==
    /\ call.op = "get_symptoms"
    /\ call.limit = 1
    /\ Len(symptoms) = 2
    /\ Len(result) = 1
    /\ medications # <<>>

\* C13: after any sequence of the four tool operations from an empty store,
\* with arbitrary integer severities offered to log_symptom, every stored
\* symptom has a severity in [1,10] and every avg_severity analyze_patterns
\* reports lies in [1,10].
C13_SeverityInRange ==
    /\ \A i \in 1..Len(symptoms) : symptoms[i].severity \in 1..10
    /\ (call.op = "analyze_patterns" /\ result.status = "success")
          => \A i \in 1..Len(result.patterns) :
                /\ result.patterns[i].avg_severity >= 10
                /\ result.patterns[i].avg_severity <= 100

\* analyze_patterns was called on a store holding both extreme severities
C13_Witness ==
    /\ call.op = "analyze_patterns"
    /\ result.status = "success"
    /\ \E i, k \in 1..Len(symptoms) :
          symptoms[i].severity = 1 /\ symptoms[k].severity = 10

\* C14: the patterns a get_health_summary call shows are aggregated over
\* exactly the symptom snapshot the call returns in its symptoms field: each
\* shown count is the number of returned entries of that name and the counts
\* sum to the reported symptom count, also when another session's
\* log_symptom runs between the statements of the call.  (At most
\* SummaryTop names are logged, so every pattern is shown.)
C14_PatternsOverReturnedSnapshot ==
    call.op = "get_health_summary"
        => LET shown == PatternLines(result.summary)
               snap == DerefAll(result.symptoms)
           IN  /\ result.summary[3].n = Len(snap)
               /\ SumCounts(shown) = result.summary[3].n
               /\ \A i \in 1..Len(shown) :
                     shown[i].count = Cardinality(Named(snap, shown[i].symptom))

====
